---- MODULE Spec2Model ----
(***************************************************************************)
(* Model of mreports: the notebook assembler (notebook.py: Cell, Item     *)
(* variants, NB) and the link rewriters (htmlmod.py: LinkModifier,         *)
(* ReportPathModifier, GSEAReportPathModifier).                            *)
(*                                                                         *)
(* Strings are sequences of tokens, a token standing for a run of          *)
(* characters that no other token shares, so that Python's "+", "in" and   *)
(* "".join() are concatenation and contiguous-subsequence search.          *)
(* Python lists are objects of a heap (lists), so that two references to   *)
(* one list see each other's appends.                                      *)
(***************************************************************************)
EXTENDS Integers, Sequences, FiniteSets, TLC

VARIABLES
    lists,          \* heap of tag lists: list id -> sequence of tags
    items,          \* every Item handed to register_item, in call order
    sections,       \* NB.sections: section name -> sequence of item ids
    section_order,  \* NB.section_order
    dependencies,   \* NB._dependencies
    nb,             \* NB.nb["cells"]
    file,           \* content of path_to_file, NoFile before the first write
    runs,           \* one record per execution of do_write
    err,            \* exception raised by the last operation, "none" if it returned
    cwd,            \* the working directory of the process, as path components
    modifier,       \* the link rewriter that was constructed
    source,         \* the source document: the href of each anchor, in document order
    created,        \* one record per execution of LinkModifier.create
    outfile,        \* content of the rewritten document, NoFile before it is written
    job_graph,      \* the build graph: job id -> declared dependencies and state
    calls,          \* the calls of NB.write and NB.convert, in call order
    converted,      \* one record per invocation of the external converter
    arg,            \* the arguments of the function that is called on its own
    ret             \* what that call returned or raised

nbvars == <<lists, items, sections, section_order, dependencies, nb, file, runs, err>>

htmlvars == <<cwd, modifier, source, created, outfile>>

graphvars == <<job_graph, calls, converted>>

fnvars == <<arg, ret>>

vars == <<lists, items, sections, section_order, dependencies, nb, file, runs, err,
          cwd, modifier, source, created, outfile, job_graph, calls, converted,
          arg, ret>>

\* ------------------------------------------------------------------ bounds

MaxItems == 3
MaxWrites == 2
PaletteSize == 7
PaletteItems == 9
PaletteSections == 8
PaletteWrites == 2

\* ------------------------------------------------------------------ strings

RECURSIVE Join(_)
\* "".join(tags)
Join(ts) == IF ts = <<>> THEN <<>> ELSE Head(ts) \o Join(Tail(ts))

\* ------------------------------------------------------------------ flatten

\* a value handed to flatten: a producer (no __iter__) or a collection of values
Producer(id) == [iter |-> FALSE, id |-> id, elems |-> <<>>]

Collection(elems) == [iter |-> TRUE, id |-> "", elems |-> elems]

RECURSIVE flatten_loop(_, _)
\* the while loop of flatten: pop(0), extend by the elements of an item that has
\* __iter__, append any other item
flatten_loop(list_of_lists, flat) ==
    IF Len(list_of_lists) = 0 THEN flat
    ELSE LET item == Head(list_of_lists)
         IN flatten_loop(Tail(list_of_lists),
                         IF item.iter THEN flat \o item.elems ELSE Append(flat, item))

\* flatten
flatten(list_of_lists) ==
    IF ~list_of_lists.iter THEN <<list_of_lists>>
    ELSE flatten_loop(list_of_lists.elems, <<>>)

\* ------------------------------------------------------------------ Cell

CellTypes == {"markdown", "code"}

\* the list object bound to the default argument tags=[] of Cell.__init__
DefaultTags == 1

\* Cell.__init__: the cell keeps a reference to the tag list (tl), meta["tags"]
\* is set when the list is non-empty at construction, and the hash is computed
\* once from the list's content at construction.
Cell(text, celltype, tl, L) ==
    [text    |-> text,
     type    |-> celltype,
     tl      |-> tl,
     hastags |-> Len(L[tl]) > 0,
     hash    |-> text \o <<celltype>> \o Join(L[tl])]

\* no Cell was constructed
NoCell == [text |-> <<>>, type |-> "none", tl |-> 0, hastags |-> FALSE, hash |-> <<>>]

\* a plausible slip: the cell type is not validated
Cell_init_unchecked(text, celltype, tl, L) ==
    [cell |-> Cell(text, celltype, tl, L), err |-> "none"]

\* Cell(text, celltype, tags) as a call: ValueError and no object for a cell
\* type other than markdown and code
Cell_init(text, celltype, tl, L) ==
    IF celltype \notin CellTypes
    THEN [cell |-> NoCell, err |-> "ValueError"]
    ELSE [cell |-> Cell(text, celltype, tl, L), err |-> "none"]

\* ------------------------------------------------------------------ Item

ItemKinds == {"markdown", "code", "html", "plot"}

\* Item.add_tag
add_tag(L, it, tag) == [L EXCEPT ![it.tl] = Append(@, tag)]

\* MarkdownItem.cells
MarkdownItem_cells(it, L) ==
    [cells |-> <<Cell(it.text, "markdown", it.tl, L)>>, lists |-> L, err |-> "none"]

\* CodeItem.cells: tags + self.tags builds a new list
CodeItem_cells(it, L) ==
    LET L2 == Append(L, <<>> \o L[it.tl])
    IN [cells |-> <<Cell(it.text, "code", Len(L2), L2)>>, lists |-> L2, err |-> "none"]

\* HTMLItem.cells
HTMLItem_cells(it, L) ==
    [cells |-> << Cell(it.text, "markdown", it.tl, L),
                  Cell(<<"HTML(filename=", "rel_filename", ")">>, "code", it.tl, L) >>,
     lists |-> L, err |-> "none"]

\* PlotItem.cells: self.job is never assigned, flatten(self.job) raises
PlotItem_cells(it, L) ==
    [cells |-> <<>>, lists |-> L, err |-> "AttributeError"]

item_cells(it, L) ==
    CASE it.kind = "markdown" -> MarkdownItem_cells(it, L)
      [] it.kind = "code"     -> CodeItem_cells(it, L)
      [] it.kind = "html"     -> HTMLItem_cells(it, L)
      [] it.kind = "plot"     -> PlotItem_cells(it, L)

\* ------------------------------------------------------------------ NB

colors == 0 :> <<"green">> @@ 1 :> <<"blue">> @@ 2 :> <<"orange">> @@ 3 :> <<"red">>
          @@ 4 :> <<"yellow">> @@ 5 :> <<"cyan">> @@ 6 :> <<"purple">>

\* list.index: 0-based position of the first occurrence
index(seq, x) ==
    (CHOOSE i \in 1..Len(seq) : seq[i] = x /\ \A j \in 1..(i - 1) : seq[j] # x) - 1

\* a plausible slip: the colour of the section registered last
get_color_tag_last(so, section) ==
    colors[(Len(so) - 1) % Cardinality(DOMAIN colors)]

\* NB.get_color_tag
get_color_tag(so, section) ==
    LET section_index == index(so, section)
    IN IF section_index >= Cardinality(DOMAIN colors)
       THEN colors[section_index % Cardinality(DOMAIN colors)]
       ELSE colors[section_index]

\* NB.init_first_cell
init_first_cell(L) ==
    << Cell(<<"from IPython.display import Image, HTML">>, "code", DefaultTags, L),
       Cell(<<"## Analysis report for ", "project_name">>, "markdown", DefaultTags, L),
       Cell(<<"%%html <style>">>, "code", DefaultTags, L) >>

\* a build-step handle or invariant: its class and what it was constructed with
Handle(cls, val) == <<cls, val>>

\* the function invariants NB.__init__ puts into _dependencies
InitDependencies ==
    [i \in 1..7 |->
        Handle("FunctionInvariant",
               << <<"plot_cells", "text_cell", "_html_cells", "_commitfunc", "_register",
                    "_initfirst", "__make_ordered_list">>[i] >>)]

RECURSIVE ItemOrder(_, _)
\* the nested loop of __make_ordered_list: sections in section_order, items in bucket order
ItemOrder(so, secs) ==
    IF so = <<>> THEN <<>> ELSE secs[Head(so)] \o ItemOrder(Tail(so), secs)

RECURSIVE make_ordered_loop(_, _, _, _)
make_ordered_loop(order, k, L, out) ==
    IF k > Len(order)
    THEN [cells |-> out, lists |-> L, err |-> "none"]
    ELSE LET it == items[order[k]]
             L1 == IF it.color
                   THEN add_tag(L, it, get_color_tag(section_order, it.section))
                   ELSE L
             r  == item_cells(it, L1)
         IN IF r.err # "none"
            THEN [cells |-> out, lists |-> r.lists, err |-> r.err]
            ELSE make_ordered_loop(order, k + 1, r.lists, out \o r.cells)

\* NB.__make_ordered_list
make_ordered_list ==
    make_ordered_loop(ItemOrder(section_order, sections), 1, lists, init_first_cell(lists))

\* nbformat's new_markdown_cell / new_code_cell: a copy of text and metadata
new_cell(c, L) ==
    [cell_type |-> c.type, source |-> c.text,
     tags |-> IF c.hastags THEN L[c.tl] ELSE <<>>]

NoFile == <<"absent">>

\* add_dependencies: the kinds of value Item.dependencies can hold
DepTypes == {"list", "job", "tuple"}

\* NB.add_dependencies
add_dependencies(deps, jobs) ==
    IF jobs.type = "list" THEN [deps |-> deps \o jobs.jobs, err |-> "none"]
    ELSE IF jobs.type = "job" THEN [deps |-> Append(deps, jobs.jobs[1]), err |-> "none"]
    ELSE [deps |-> deps, err |-> "ValueError"]

\* a plausible slip: the section is appended to section_order on every call
register_item_nocheck(kind, section, text, tags, color, deps) ==
    LET tl == Len(lists) + 1
        it == [kind |-> kind, section |-> section, text |-> text, tl |-> tl,
               color |-> color, deps |-> deps]
        id == Len(items) + 1
        r  == add_dependencies(dependencies, deps)
    IN /\ lists' = Append(lists, tags)
       /\ items' = Append(items, it)
       /\ section_order' = Append(section_order, section)
       /\ sections' = IF section \notin DOMAIN sections
                      THEN (section :> <<id>>) @@ sections
                      ELSE [sections EXCEPT ![section] = Append(@, id)]
       /\ dependencies' = r.deps
       /\ err' = r.err
       /\ UNCHANGED <<nb, file, runs>>
       /\ UNCHANGED htmlvars
       /\ UNCHANGED fnvars
       /\ UNCHANGED graphvars

\* NB.register_item, with the construction of the item: tags=None makes a new
\* empty list, a list given by the caller is stored as it is
register_item(kind, section, text, tags, color, deps) ==
    LET tl == Len(lists) + 1
        it == [kind |-> kind, section |-> section, text |-> text, tl |-> tl,
               color |-> color, deps |-> deps]
        id == Len(items) + 1
        r  == add_dependencies(dependencies, deps)
    IN /\ lists' = Append(lists, tags)
       /\ items' = Append(items, it)
       /\ IF section \notin DOMAIN sections
          THEN /\ section_order' = Append(section_order, section)
               /\ sections' = (section :> <<id>>) @@ sections
          ELSE /\ section_order' = section_order
               /\ sections' = [sections EXCEPT ![section] = Append(@, id)]
       /\ dependencies' = r.deps
       /\ err' = r.err
       /\ UNCHANGED <<nb, file, runs>>
       /\ UNCHANGED htmlvars
       /\ UNCHANGED fnvars
       /\ UNCHANGED graphvars

\* a plausible slip: nb["cells"] is not emptied before the cells are appended
commit_retain(r) ==
    LET ok  == r.err = "none"
        inv == [i \in 1..Len(r.cells) |-> r.cells[i].hash]
        new == [i \in 1..Len(r.cells) |-> new_cell(r.cells[i], r.lists)]
    IN /\ lists' = r.lists
       /\ nb' = IF ok THEN nb \o new ELSE nb
       /\ dependencies' = IF ok
                          THEN Append(dependencies, Handle("ParameterInvariant", inv))
                          ELSE dependencies
       /\ file' = IF ok THEN nb \o new ELSE file
       /\ runs' = Append(runs, [nitems |-> Len(items), cells |-> r.cells,
                                nb |-> IF ok THEN nb \o new ELSE nb,
                                invariants |-> IF ok THEN inv ELSE <<>>,
                                err |-> r.err])
       /\ err' = r.err
       /\ UNCHANGED <<items, sections, section_order>>
       /\ UNCHANGED htmlvars
       /\ UNCHANGED fnvars

\* NB.__commit, given the result r of __make_ordered_list, and the do_write
\* callback of NB.write around it
commit(r) ==
    LET ok  == r.err = "none"
        inv == [i \in 1..Len(r.cells) |-> r.cells[i].hash]
        new == [i \in 1..Len(r.cells) |-> new_cell(r.cells[i], r.lists)]
    IN /\ lists' = r.lists
       /\ nb' = IF ok THEN new ELSE <<>>
       /\ dependencies' = IF ok
                          THEN Append(dependencies, Handle("ParameterInvariant", inv))
                          ELSE dependencies
       /\ file' = IF ok THEN new ELSE file
       /\ runs' = Append(runs, [nitems |-> Len(items), cells |-> r.cells,
                                nb |-> IF ok THEN new ELSE <<>>,
                                invariants |-> IF ok THEN inv ELSE <<>>,
                                err |-> r.err])
       /\ err' = r.err
       /\ UNCHANGED <<items, sections, section_order>>
       /\ UNCHANGED htmlvars
       /\ UNCHANGED fnvars

do_write == \E r \in {make_ordered_list} : commit(r)

\* ------------------------------------------------------------------ inputs

\* the section names callers use
SectionNames == {"A", "B"}

NoJobs == [type |-> "list", jobs |-> <<>>]

\* the job an item was constructed with
AJob == Handle("Job", <<"job">>)

\* the items callers register: [kind, text, tags, color, deps]
ItemInputs ==
    { [kind |-> "markdown", text |-> <<"t">>, tags |-> <<>>, color |-> TRUE, deps |-> NoJobs],
      [kind |-> "markdown", text |-> <<"t">>, tags |-> << <<"a">>, <<"b">> >>,
       color |-> FALSE, deps |-> NoJobs],
      [kind |-> "markdown", text |-> <<"t">>, tags |-> << <<"a", "b">> >>,
       color |-> FALSE, deps |-> NoJobs],
      [kind |-> "code", text |-> <<"c">>, tags |-> <<>>, color |-> TRUE, deps |-> NoJobs],
      [kind |-> "html", text |-> <<"#### HTML from : ", "filename">>, tags |-> <<>>,
       color |-> TRUE, deps |-> [type |-> "list", jobs |-> <<AJob, AJob>>]],
      [kind |-> "plot", text |-> <<"p">>, tags |-> <<>>, color |-> FALSE,
       deps |-> [type |-> "job", jobs |-> <<AJob>>]],
      [kind |-> "plot", text |-> <<"p">>, tags |-> <<>>, color |-> FALSE,
       deps |-> [type |-> "tuple", jobs |-> <<AJob>>]] }

\* ------------------------------------------------------------------ specification

\* NB.__init__
NB_init ==
    /\ lists = << <<>> >>
    /\ items = <<>>
    /\ sections = [s \in {} |-> <<>>]
    /\ section_order = <<>>
    /\ dependencies = InitDependencies
    /\ nb = <<>>
    /\ file = NoFile
    /\ runs = <<>>
    /\ err = "none"

\* no link rewriter is constructed
NoModifier == [cls |-> "none"]

\* no job is declared, the converter was not invoked
NoGraph ==
    /\ job_graph = [j \in {} |-> <<>>]
    /\ calls = <<>>
    /\ converted = <<>>

\* no function is called on its own
NoArg == [fn |-> "none"]

NotApplied == [err |-> "not called"]

NoCall ==
    /\ arg = NoArg
    /\ ret = NotApplied

Init ==
    /\ NB_init
    /\ cwd = <<>>
    /\ modifier = NoModifier
    /\ source = <<>>
    /\ created = <<>>
    /\ outfile = NoFile
    /\ NoGraph
    /\ NoCall

Register ==
    /\ Len(items) < MaxItems
    /\ \E a \in ItemInputs, s \in SectionNames :
          register_item(a.kind, s, a.text, a.tags, a.color, a.deps)

Write ==
    /\ Len(runs) < MaxWrites
    /\ do_write
    /\ UNCHANGED graphvars

Next == Register \/ Write

Spec == Init /\ [][Next]_vars

\* The assembler with more sections than the palette has colours. Section names
\* are compared for equality only, so a new section takes the largest name not
\* in use; an item for a section already known goes to the section registered
\* first.
FreshNames ==
    { s \in 1..PaletteSections :
        /\ s \notin DOMAIN sections
        /\ \A u \in 1..PaletteSections : u \notin DOMAIN sections => u <= s }

KnownNames == IF section_order = <<>> THEN {} ELSE {Head(section_order)}

RegisterPalette ==
    /\ Len(items) < PaletteItems
    /\ \E s \in FreshNames \cup KnownNames :
          register_item("markdown", s, <<"t">>, <<>>, TRUE, NoJobs)

WritePalette ==
    /\ Len(runs) < PaletteWrites
    /\ do_write
    /\ UNCHANGED graphvars

NextPalette == RegisterPalette \/ WritePalette

SpecPalette == Init /\ [][NextPalette]_vars

\* ------------------------------------------------------------------ Cell on its own

\* the list a caller builds and passes as tags
CallerList == 2

\* the assembler of NB.__init__ without its heap
NB_empty ==
    /\ items = <<>>
    /\ sections = [s \in {} |-> <<>>]
    /\ section_order = <<>>
    /\ dependencies = InitDependencies
    /\ nb = <<>>
    /\ file = NoFile
    /\ runs = <<>>
    /\ err = "none"

\* no link rewriter
NoHtml ==
    /\ cwd = <<>>
    /\ modifier = NoModifier
    /\ source = <<>>
    /\ created = <<>>
    /\ outfile = NoFile

CellTexts == { <<>>, <<"t">>, <<"t", "u">> }

\* the values callers pass as celltype
CellTypeInputs == {"markdown", "code", "raw", "Markdown", "html", "Code"}

CellTagInputs == { <<>>, << <<"a">> >>, << <<"a">>, <<"b">> >>, << <<"green">> >> }

InitCell ==
    /\ NB_empty
    /\ NoHtml
    /\ NoGraph
    /\ lists \in { << <<>>, t >> : t \in CellTagInputs }
    /\ arg \in [fn : {"Cell"}, text : CellTexts, celltype : CellTypeInputs,
                 tl : {DefaultTags, CallerList}]
    /\ ret = NotApplied

Construct ==
    /\ arg.fn = "Cell"
    /\ ret = NotApplied
    /\ ret' = Cell_init(arg.text, arg.celltype, arg.tl, lists)
    /\ UNCHANGED arg
    /\ UNCHANGED nbvars
    /\ UNCHANGED htmlvars
    /\ UNCHANGED graphvars

NextCell == Construct

SpecCell == InitCell /\ [][NextCell]_vars

\* ------------------------------------------------------------------ items built from one tag list

MaxSharedItems == 2
MaxSharedWrites == 2

\* item.section is None
NoSection == "None"

\* what the caller's list holds when the caller has built it
CallerTags == << <<"x">> >>

\* Item.__init__ behind the constructors of the variants: section, tags, color
\* and dependencies are stored as given, tl is the list the item keeps (the
\* caller's list, or a new list for tags=None); nothing is validated
Item_init(kind, section, text, tl, color, deps) ==
    [item |-> [kind |-> kind, section |-> section, text |-> text, tl |-> tl,
               color |-> color, deps |-> deps],
     err |-> "none"]

\* NB.register_item for an item already constructed, L the heap after its construction
NB_register_item(it, L) ==
    LET id == Len(items) + 1
        r  == add_dependencies(dependencies, it.deps)
    IN /\ lists' = L
       /\ items' = Append(items, it)
       /\ IF it.section \notin DOMAIN sections
          THEN /\ section_order' = Append(section_order, it.section)
               /\ sections' = (it.section :> <<id>>) @@ sections
          ELSE /\ section_order' = section_order
               /\ sections' = [sections EXCEPT ![it.section] = Append(@, id)]
       /\ dependencies' = r.deps
       /\ err' = r.err
       /\ UNCHANGED <<nb, file, runs>>
       /\ UNCHANGED htmlvars
       /\ UNCHANGED graphvars
       /\ UNCHANGED fnvars

\* the variants callers construct: [kind, text, deps]
ItemShapes ==
    { [kind |-> "markdown", text |-> <<"t">>, deps |-> NoJobs],
      [kind |-> "code", text |-> <<"c">>, deps |-> NoJobs],
      [kind |-> "html", text |-> <<"#### HTML from : ", "filename">>,
       deps |-> [type |-> "list", jobs |-> <<AJob, AJob>>]] }

\* the caller has built one tag list before constructing any item
InitItems ==
    /\ NB_empty
    /\ lists = << <<>>, CallerTags >>
    /\ NoHtml
    /\ NoGraph
    /\ NoCall

\* construct an item with tags=None or with the caller's list, for a section
\* name or for None, and register it
RegisterItems ==
    /\ Len(items) < MaxSharedItems
    /\ \E a \in ItemShapes, s \in SectionNames \cup {NoSection}, color \in BOOLEAN,
          tags \in {"None", "caller"} :
          LET tl == IF tags = "None" THEN Len(lists) + 1 ELSE CallerList
              L  == IF tags = "None" THEN Append(lists, <<>>) ELSE lists
              c  == Item_init(a.kind, s, a.text, tl, color, a.deps)
          IN c.err = "none" /\ NB_register_item(c.item, L)

WriteItems ==
    /\ Len(runs) < MaxSharedWrites
    /\ do_write
    /\ UNCHANGED graphvars

NextItems == RegisterItems \/ WriteItems

SpecItems == InitItems /\ [][NextItems]_vars

\* ------------------------------------------------------------------ flatten on its own

MaxDepth == 3

Producers == {Producer("j1"), Producer("j2")}

\* the collections of at most two values of S
Collections(S) ==
    {Collection(<<>>)} \cup {Collection(<<a>>) : a \in S}
    \cup {Collection(<<a, b>>) : a \in S, b \in S}

RECURSIVE Nested(_)
\* a producer, or collections nested at most d deep
Nested(d) ==
    IF d = 0 THEN Producers ELSE Producers \cup Collections(Nested(d - 1))

InitFlatten ==
    /\ NB_init
    /\ NoHtml
    /\ NoGraph
    /\ arg \in [fn : {"flatten"}, list_of_lists : Nested(MaxDepth)]
    /\ ret = NotApplied

Flatten ==
    /\ arg.fn = "flatten"
    /\ ret = NotApplied
    /\ ret' = [val |-> flatten(arg.list_of_lists), err |-> "none"]
    /\ UNCHANGED arg
    /\ UNCHANGED nbvars
    /\ UNCHANGED htmlvars
    /\ UNCHANGED graphvars

NextFlatten == Flatten

SpecFlatten == InitFlatten /\ [][NextFlatten]_vars

\* ------------------------------------------------------------------ build graph

MaxGraphItems == 2
MaxCalls == 2

\* FileGeneratingJob(id, callback).depends_on(deps).depends_on(upstream): the
\* graph keeps one job per id; depends_on adds the edges for the dependencies
\* the list holds when it is called
declare(J, id, deps, upstream) ==
    IF id \in DOMAIN J
    THEN [J EXCEPT ![id].deps = @ \o deps, ![id].upstream = @ \cup upstream]
    ELSE (id :> [deps |-> deps, upstream |-> upstream, state |-> "declared"]) @@ J

\* NB.write: the job that runs do_write, depending on the assembler's dependencies
write(J) == declare(J, "write", dependencies, {})

\* a plausible slip: the convert job is not made to depend on the write job
convert_unordered(J) ==
    declare(J, "convert", Append(dependencies, Handle("FileInvariant", <<"template">>)), {})

\* NB.convert: the job that runs the converter, depending on the assembler's
\* dependencies, on the job of self.write() and on the template
convert(J) ==
    declare(write(J), "convert", Append(dependencies, Handle("FileInvariant", <<"template">>)), {"write"})

\* the scheduler runs a declared job once, after every job it depends on has
\* completed; the invariants and the jobs of the items are kept by the scheduler
\* and do not hold a job back
runnable(id) ==
    /\ id \in DOMAIN job_graph
    /\ job_graph[id].state = "declared"
    /\ \A u \in job_graph[id].upstream : u \in DOMAIN job_graph /\ job_graph[u].state = "done"

RegisterGraph ==
    /\ Len(items) < MaxGraphItems
    /\ \E a \in ItemInputs, s \in SectionNames :
          register_item(a.kind, s, a.text, a.tags, a.color, a.deps)

CallWrite ==
    /\ Len(calls) < MaxCalls
    /\ job_graph' = write(job_graph)
    /\ calls' = Append(calls, "write")
    /\ UNCHANGED converted
    /\ UNCHANGED nbvars
    /\ UNCHANGED htmlvars
    /\ UNCHANGED fnvars

CallConvert ==
    /\ Len(calls) < MaxCalls
    /\ job_graph' = convert(job_graph)
    /\ calls' = Append(calls, "convert")
    /\ UNCHANGED converted
    /\ UNCHANGED nbvars
    /\ UNCHANGED htmlvars
    /\ UNCHANGED fnvars

\* the scheduler runs the write job: do_write, failed when it raises
RunWrite ==
    /\ runnable("write")
    /\ do_write
    /\ job_graph' = [job_graph EXCEPT !["write"].state = IF err' = "none" THEN "done" ELSE "failed"]
    /\ UNCHANGED <<calls, converted>>

\* the scheduler runs the convert job: __run hands path_to_file to the
\* converter, check_call raises when the converter exits with an error
RunConvert ==
    /\ runnable("convert")
    /\ converted' = Append(converted, [input |-> file, nruns |-> Len(runs)])
    /\ \E exit \in {"done", "failed"} : job_graph' = [job_graph EXCEPT !["convert"].state = exit]
    /\ UNCHANGED calls
    /\ UNCHANGED nbvars
    /\ UNCHANGED htmlvars
    /\ UNCHANGED fnvars

NextGraph == RegisterGraph \/ CallWrite \/ CallConvert \/ RunWrite \/ RunConvert

SpecGraph == Init /\ [][NextGraph]_vars

\* ------------------------------------------------------------------ paths

\* the anchor has no href attribute: link.get("href") is None
NoHref == <<"None">>

\* the component ".."
DotDot == <<".", ".">>

RECURSIVE Split(_, _, _)
\* str.split("/"): the runs of tokens between slashes, empty runs included
Split(str, cur, acc) ==
    IF str = <<>> THEN Append(acc, cur)
    ELSE IF Head(str) = "/" THEN Split(Tail(str), <<>>, Append(acc, cur))
    ELSE Split(Tail(str), Append(cur, Head(str)), acc)

\* pathlib.Path(str): empty and "." components are dropped, ".." is kept
ParsePath(str) ==
    [abs   |-> str # <<>> /\ Head(str) = "/",
     parts |-> SelectSeq(Split(str, <<>>, <<>>), LAMBDA c : c # <<>> /\ c # <<".">>)]

RECURSIVE JoinSlash(_)
\* "/".join(parts)
JoinSlash(parts) ==
    IF parts = <<>> THEN <<>>
    ELSE IF Len(parts) = 1 THEN parts[1]
    ELSE parts[1] \o <<"/">> \o JoinSlash(Tail(parts))

\* str(Path)
PathStr(path) ==
    IF path.abs THEN <<"/">> \o JoinSlash(path.parts)
    ELSE IF path.parts = <<>> THEN <<".">>
    ELSE JoinSlash(path.parts)

\* Path.parent
parent(path) ==
    [path EXCEPT !.parts = IF @ = <<>> THEN @ ELSE SubSeq(@, 1, Len(@) - 1)]

\* the symbolic links of the file system: link -> target, both absolute, the
\* target free of links
Symlinks == { [link |-> << <<"lnk">> >>, target |-> << <<"tmp">>, <<"report">>, <<"test">> >>] }

IsLink(parts) == \E l \in Symlinks : l.link = parts

Target(parts) == (CHOOSE l \in Symlinks : l.link = parts).target

RECURSIVE RealWalk(_, _)
\* os.path.realpath on the components rest, walked from the real directory at:
\* ".." leaves the directory reached so far, a link is replaced by its target
RealWalk(at, rest) ==
    IF rest = <<>> THEN at
    ELSE IF Head(rest) = DotDot
         THEN RealWalk(IF at = <<>> THEN at ELSE SubSeq(at, 1, Len(at) - 1), Tail(rest))
    ELSE IF IsLink(Append(at, Head(rest)))
         THEN RealWalk(Target(Append(at, Head(rest))), Tail(rest))
    ELSE RealWalk(Append(at, Head(rest)), Tail(rest))

\* Path.resolve() in working directory d: absolute, links and ".." resolved
resolve(path, d) ==
    [abs |-> TRUE, parts |-> RealWalk(<<>>, IF path.abs THEN path.parts ELSE d \o path.parts)]

RECURSIVE CommonLen(_, _)
\* len(os.path.commonprefix([a, b])) on component lists
CommonLen(a, b) ==
    IF a = <<>> \/ b = <<>> \/ Head(a) # Head(b) THEN 0
    ELSE 1 + CommonLen(Tail(a), Tail(b))

\* os.path.relpath(path, start) on absolute, normalised component lists
relpath(path, start) ==
    LET i == CommonLen(start, path)
        rel_list == [k \in 1..(Len(start) - i) |-> DotDot] \o SubSeq(path, i + 1, Len(path))
    IN IF rel_list = <<>> THEN <<".">> ELSE JoinSlash(rel_list)

\* a plausible slip: the report path is made absolute but its links are not resolved
resolve_path_lexical(report_path, result_path, d) ==
    ParsePath(relpath(resolve(result_path, d).parts,
                      IF report_path.abs THEN report_path.parts ELSE d \o report_path.parts))

\* ReportPathModifier.resolve_path, in working directory d
resolve_path(report_path, result_path, d) ==
    ParsePath(relpath(resolve(result_path, d).parts, resolve(report_path, d).parts))

\* ------------------------------------------------------------------ htmlmod

\* substring in href
Contains(sub, str) ==
    \E i \in 0..(Len(str) - Len(sub)) : SubSeq(str, i + 1, i + Len(sub)) = sub

\* the fixed sentinel filename of get_folder_from_gsea_html
Sentinel == <<"pos_snapshot", ".", "html">>

RECURSIVE get_folder_from_gsea_html(_)
\* get_folder_from_gsea_html on the anchors of the document
get_folder_from_gsea_html(soup) ==
    IF soup = <<>> THEN [val |-> <<>>, err |-> "ValueError"]
    ELSE IF Head(soup) = NoHref THEN [val |-> <<>>, err |-> "TypeError"]
    ELSE IF Contains(Sentinel, Head(soup))
         THEN [val |-> PathStr(parent(ParsePath(Head(soup)))), err |-> "none"]
    ELSE get_folder_from_gsea_html(Tail(soup))

\* a matcher that was not resolved
NoMatcher == [kind |-> "none", arg |-> <<>>]

\* a plausible slip: a value that is no string, callable or None accepts every href
LinkModifier_get_matcher_lenient(m) ==
    CASE m.link_matcher.type = "str" ->
            [matcher |-> [kind |-> "match", arg |-> m.link_matcher.val], err |-> "none"]
      [] m.link_matcher.type = "callable" ->
            [matcher |-> [kind |-> "callable", arg |-> m.link_matcher.val], err |-> "none"]
      [] OTHER -> [matcher |-> [kind |-> "accept_all", arg |-> <<>>], err |-> "none"]

\* LinkModifier.get_matcher
LinkModifier_get_matcher(m) ==
    CASE m.link_matcher.type = "str" ->
            [matcher |-> [kind |-> "match", arg |-> m.link_matcher.val], err |-> "none"]
      [] m.link_matcher.type = "callable" ->
            [matcher |-> [kind |-> "callable", arg |-> m.link_matcher.val], err |-> "none"]
      [] m.link_matcher.type = "None" ->
            [matcher |-> [kind |-> "accept_all", arg |-> <<>>], err |-> "none"]
      [] OTHER -> [matcher |-> NoMatcher, err |-> "ValueError"]

\* a plausible slip: the folder is not used, every href is accepted
GSEAReportPathModifier_get_matcher_all(m, soup) ==
    LET folder == get_folder_from_gsea_html(soup)
    IN IF folder.err # "none" THEN [matcher |-> NoMatcher, err |-> folder.err]
       ELSE [matcher |-> [kind |-> "accept_all", arg |-> <<>>], err |-> "none"]

\* GSEAReportPathModifier.get_matcher
GSEAReportPathModifier_get_matcher(m, soup) ==
    LET folder == get_folder_from_gsea_html(soup)
    IN IF folder.err # "none" THEN [matcher |-> NoMatcher, err |-> folder.err]
       ELSE [matcher |-> [kind |-> "accept", arg |-> folder.val], err |-> "none"]

get_matcher(m, soup) ==
    IF m.cls = "GSEAReportPathModifier" THEN GSEAReportPathModifier_get_matcher(m, soup)
    ELSE LinkModifier_get_matcher(m)

\* link_matched(href): accept_all takes anything, the substring tests raise on None.
\* The callable a caller configures is a substring test as well.
link_matched(matcher, href) ==
    IF matcher.kind = "accept_all" THEN "True"
    ELSE IF href = NoHref THEN "TypeError"
    ELSE IF Contains(matcher.arg, href) THEN "True" ELSE "False"

\* self.modify_link(Path(href)): ReportPathModifier.modify_link for the report
\* path modifiers; a plain LinkModifier is given the function by its caller, here
\* the one that returns the parent directory
modify_link(m, href_path, d) ==
    IF m.cls = "LinkModifier" THEN parent(href_path)
    ELSE resolve_path(m.report_path, href_path, d)

RECURSIVE modify_soup_loop(_, _, _, _, _)
\* the loop of LinkModifier.modify_soup from anchor k on: the soup is changed in
\* place, an exception leaves it as changed so far
modify_soup_loop(m, soup, matcher, d, k) ==
    IF k > Len(soup) THEN [soup |-> soup, err |-> "none"]
    ELSE LET matched == link_matched(matcher, soup[k])
         IN IF matched = "TypeError" THEN [soup |-> soup, err |-> "TypeError"]
            ELSE IF matched = "False" THEN modify_soup_loop(m, soup, matcher, d, k + 1)
            ELSE IF soup[k] = NoHref THEN [soup |-> soup, err |-> "TypeError"]
            ELSE modify_soup_loop(
                     m, [soup EXCEPT ![k] = PathStr(modify_link(m, ParsePath(soup[k]), d))],
                     matcher, d, k + 1)

\* LinkModifier.modify_soup
modify_soup(m, soup, matcher, d) == modify_soup_loop(m, soup, matcher, d, 1)

\* get_folder_from_gsea_html was not called
NotCalled == [val |-> <<>>, err |-> "not called"]

\* LinkModifier.create: parse the document, resolve the matcher, rewrite, write
create ==
    \E g \in {get_matcher(modifier, source)} :
      \E r \in {IF g.err # "none" THEN [soup |-> source, err |-> g.err]
                ELSE modify_soup(modifier, source, g.matcher, cwd)} :
        /\ created' = Append(created,
                [cwd |-> cwd,
                 folder |-> IF modifier.cls = "GSEAReportPathModifier"
                            THEN get_folder_from_gsea_html(source) ELSE NotCalled,
                 matcher |-> g.matcher, soup |-> r.soup, err |-> r.err])
        /\ outfile' = IF r.err = "none" THEN r.soup ELSE outfile
        /\ UNCHANGED <<cwd, modifier, source>>
        /\ UNCHANGED nbvars
        /\ UNCHANGED graphvars
        /\ UNCHANGED fnvars

\* os.chdir
chdir(d) ==
    /\ cwd' = d
    /\ UNCHANGED <<modifier, source, created, outfile>>
    /\ UNCHANGED nbvars
    /\ UNCHANGED graphvars
    /\ UNCHANGED fnvars

\* ------------------------------------------------------------------ inputs of the link rewriters

Cwds == { << <<"tmp">> >>, << <<"tmp">>, <<"p">> >> }

ReportPaths ==
    { [abs |-> TRUE, parts |-> << <<"tmp">>, <<"report">>, <<"test">> >>],
      [abs |-> FALSE, parts |-> << <<"out">>, <<"notebook">> >>],
      [abs |-> TRUE, parts |-> << <<"lnk">> >>] }

LinkMatchers ==
    { [type |-> "None", val |-> <<>>],
      [type |-> "str", val |-> <<"g">>],
      [type |-> "callable", val |-> <<"x">>],
      [type |-> "int", val |-> <<>>] }

Modifiers ==
    { [cls |-> "LinkModifier", report_path |-> [abs |-> FALSE, parts |-> <<>>], link_matcher |-> lm] :
        lm \in LinkMatchers }
    \cup { [cls |-> "ReportPathModifier", report_path |-> rp, link_matcher |-> lm] :
             rp \in ReportPaths, lm \in LinkMatchers }
    \cup { [cls |-> "GSEAReportPathModifier", report_path |-> rp,
            link_matcher |-> [type |-> "None", val |-> <<>>]] : rp \in ReportPaths }

Hrefs ==
    { NoHref,
      <<"g", "/", "pos_snapshot", ".", "html">>,
      <<"pos_snapshot", ".", "html">>,
      <<"g", "/", "x", ".", "html">>,
      <<"x", "g", ".", "html">>,
      <<".", ".", "/", "x", ".", "html">>,
      <<"/", "tmp", "/", "data", "/", "test", ".", "html">>,
      <<"/", "tmp", "/", "report", "/", "test", "/", "data", "/", "test", ".", "html">>,
      <<"/", "tmp", "/", "report", "/", "test">> }

MaxAnchors == 2
MaxCreates == 2

Documents == UNION { [1..n -> Hrefs] : n \in 0..MaxAnchors }

InitHtml ==
    /\ NB_init
    /\ cwd \in Cwds
    /\ modifier \in Modifiers
    /\ source \in Documents
    /\ created = <<>>
    /\ outfile = NoFile
    /\ NoGraph
    /\ NoCall

Create ==
    /\ Len(created) < MaxCreates
    /\ create

Chdir == \E d \in Cwds : d # cwd /\ chdir(d)

NextHtml == Create \/ Chdir

SpecHtml == InitHtml /\ [][NextHtml]_vars

\* ------------------------------------------------------------------ claims

RECURSIVE FirstSeen(_, _)
\* the distinct section names of items[k..], after those of acc, by first occurrence
FirstSeen(k, acc) ==
    IF k > Len(items) THEN acc
    ELSE FirstSeen(k + 1, IF \E j \in 1..Len(acc) : acc[j] = items[k].section
                          THEN acc ELSE Append(acc, items[k].section))

\* the ids of the items registered with section s, in registration order
RegisteredIn(s) ==
    SelectSeq([i \in 1..Len(items) |-> i], LAMBDA i : items[i].section = s)

\* C1: section_order lists every registered section name exactly once, in order
\* of first registration, and each section's bucket is the subsequence of the
\* registered items with that section name, in registration order.
C1_SectionsInRegistrationOrder ==
    /\ section_order = FirstSeen(1, <<>>)
    /\ \A i, j \in 1..Len(section_order) : section_order[i] = section_order[j] => i = j
    /\ DOMAIN sections = {items[i].section : i \in 1..Len(items)}
    /\ \A s \in DOMAIN sections : sections[s] = RegisteredIn(s)

\* registrations into A, B, A
C1_Witness ==
    /\ Len(items) = 3
    /\ items[1].section = items[3].section
    /\ items[2].section # items[1].section
    /\ section_order = <<items[1].section, items[2].section>>
    /\ sections[items[1].section] = <<1, 3>>

\* C2: two executions of the write step with no register_item call in between
\* yield the same cells (text, kind, tags) and the same fingerprint list.
C2_AssemblyIdempotent ==
    \A i, j \in 1..Len(runs) :
        runs[i].nitems = runs[j].nitems =>
            /\ runs[i].nb = runs[j].nb
            /\ runs[i].invariants = runs[j].invariants

\* the number of cells an item of this kind produces
NCells(it) == IF it.kind = "html" THEN 2 ELSE 1

\* C3: assemble, register exactly one more item, assemble again: the second cell
\* sequence starts with the first one unchanged, the new item's cells follow at the end.
C3_NewCellsAppended ==
    \A i \in 1..(Len(runs) - 1) :
        LET a == runs[i]
            b == runs[i + 1]
        IN (a.nitems >= 1 /\ b.nitems = a.nitems + 1 /\ a.err = "none" /\ b.err = "none") =>
              /\ Len(b.nb) = Len(a.nb) + NCells(items[b.nitems])
              /\ SubSeq(b.nb, 1, Len(a.nb)) = a.nb
              /\ b.nb[Len(a.nb) + 1].source = items[b.nitems].text

\* C4: the section at index i of section_order has colour palette[i mod 7]; every
\* colour tag an assembly has appended to an item is that colour, whenever it was
\* appended.
C4_SectionColourByIndex ==
    /\ Cardinality(DOMAIN colors) = PaletteSize
    /\ \A i \in 1..Len(section_order) :
          /\ get_color_tag(section_order, section_order[i]) = colors[(i - 1) % PaletteSize]
          /\ \A k \in 1..Len(items) :
                (items[k].section = section_order[i] /\ items[k].color) =>
                    \A t \in 1..Len(lists[items[k].tl]) :
                        lists[items[k].tl][t] = colors[(i - 1) % PaletteSize]

\* more sections than colours, two assemblies after the last section was
\* registered, and two items in the first section
C4_Witness ==
    /\ Len(section_order) > PaletteSize
    /\ Len(sections[section_order[1]]) >= 2
    /\ \E k \in 1..Len(items) :
          /\ items[k].section = section_order[PaletteSize + 1]
          /\ lists[items[k].tl] = <<colors[0], colors[0]>>

\* the written cells: <<run, position>>
WrittenCells ==
    UNION { {<<r, i>> : i \in 1..Len(runs[r].nb)} : r \in 1..Len(runs) }

\* in how many of text, kind and tags two written cells differ
FieldsDiffering(x, y) ==
    (IF x.source # y.source THEN 1 ELSE 0) + (IF x.cell_type # y.cell_type THEN 1 ELSE 0)
    + (IF x.tags # y.tags THEN 1 ELSE 0)

\* C8: cells with equal (text, kind, tags) have equal fingerprints, cells that
\* differ in exactly one of text, kind and tags have different fingerprints.
C8_FingerprintSeparatesFields ==
    \A x, y \in WrittenCells :
        LET cx == runs[x[1]].nb[x[2]]
            cy == runs[y[1]].nb[y[2]]
            hx == runs[x[1]].invariants[x[2]]
            hy == runs[y[1]].invariants[y[2]]
        IN /\ FieldsDiffering(cx, cy) = 0 => hx = hy
           /\ FieldsDiffering(cx, cy) = 1 => hx # hy

\* the create executions of a modifier that rewrites with resolve_path
ReportRuns ==
    IF modifier.cls \in {"ReportPathModifier", "GSEAReportPathModifier"}
    THEN 1..Len(created) ELSE {}

\* the absolute form of the report directory in working directory d
AbsReport(d) ==
    IF modifier.report_path.abs THEN modifier.report_path.parts
    ELSE d \o modifier.report_path.parts

\* path a is the directory b or lies below it
Below(a, b) == Len(a) >= Len(b) /\ SubSeq(a, 1, Len(b)) = b

\* C5: the path written for report directory R and resource P is relative and,
\* followed from the absolute form of R, ends at the absolute location of P; it
\* has no ".." when P lies below R.
C5_RelativePathReachesResource ==
    \A n \in ReportRuns : \A i \in 1..Len(source) :
        ( \/ created[n].soup[i] # source[i]
          \/ created[n].err = "none" /\ link_matched(created[n].matcher, source[i]) = "True" ) =>
            LET out == ParsePath(created[n].soup[i])
                P   == resolve(ParsePath(source[i]), created[n].cwd).parts
                R   == resolve(modifier.report_path, created[n].cwd).parts
            IN /\ ~out.abs
               /\ RealWalk(<<>>, AbsReport(created[n].cwd) \o out.parts) = P
               /\ Below(P, R) => \A k \in 1..Len(out.parts) : out.parts[k] # DotDot

\* R = /tmp/report/test and P = /tmp/data/test.html give ../../data/test.html, and
\* a rewrite through a report directory that is a link
C5_Witness ==
    \E n \in ReportRuns : \E i \in 1..Len(source) :
        /\ created[n].err = "none"
        /\ source[i] = <<"/", "tmp", "/", "data", "/", "test", ".", "html">>
        /\ created[n].soup[i] = <<".", ".", "/", ".", ".", "/", "data", "/", "test", ".", "html">>
        /\ IsLink(modifier.report_path.parts)

\* C6: two rewrites of the same document with the same report directory that
\* differ in the working directory only write the same hrefs.
C6_RewriteIndependentOfCwd ==
    \A a, b \in ReportRuns :
        ( /\ created[a].err = "none"
          /\ created[b].err = "none"
          /\ resolve(modifier.report_path, created[a].cwd)
               = resolve(modifier.report_path, created[b].cwd) )
        => created[a].soup = created[b].soup

\* the anchor has an href and the href satisfies the predicate
Satisfies(matcher, href) ==
    href # NoHref /\ (matcher.kind = "accept_all" \/ Contains(matcher.arg, href))

\* C7: modify_soup changes exactly the anchors whose href satisfies the
\* predicate, to the rewrite function's result, and leaves the others and the
\* number and order of the anchors as they were.
C7_ExactlyMatchedAnchorsRewritten ==
    \A n \in 1..Len(created) :
        created[n].matcher # NoMatcher =>
            /\ Len(created[n].soup) = Len(source)
            /\ \A i \in 1..Len(source) :
                  created[n].soup[i] =
                      IF Satisfies(created[n].matcher, source[i])
                      THEN PathStr(modify_link(modifier, ParsePath(source[i]), created[n].cwd))
                      ELSE source[i]

\* the anchors whose href contains the sentinel filename
SentinelAnchors ==
    {i \in 1..Len(source) : source[i] # NoHref /\ Contains(Sentinel, source[i])}

\* C9: get_folder_from_gsea_html returns the parent directory of the href of the
\* first anchor whose href contains the sentinel, and raises when there is none.
C9_FolderOfFirstSentinelAnchor ==
    \A n \in 1..Len(created) :
        created[n].folder # NotCalled =>
            IF SentinelAnchors = {}
            THEN created[n].folder.err # "none"
            ELSE LET first == CHOOSE i \in SentinelAnchors : \A j \in SentinelAnchors : i <= j
                 IN /\ created[n].folder.err = "none"
                    /\ created[n].folder.val = PathStr(parent(ParsePath(source[first])))

\* the href is a relative path below the folder
UnderFolder(folder, href) ==
    /\ href # NoHref
    /\ ~ParsePath(href).abs
    /\ Len(ParsePath(href).parts) > Len(ParsePath(folder).parts)
    /\ Below(ParsePath(href).parts, ParsePath(folder).parts)

\* C10 as stated: GSEAReportPathModifier rewrites an href only if it lies under
\* the folder discovered from the sentinel anchor.
C10_OnlyUnderFolderRewritten ==
    \A n \in 1..Len(created) :
        created[n].folder.err = "none" =>
            \A i \in 1..Len(source) :
                created[n].soup[i] # source[i] => UnderFolder(created[n].folder.val, source[i])

\* C10 as amended: GSEAReportPathModifier rewrites an href only if the name of the
\* discovered folder occurs in it as a substring; every anchor whose href does
\* not contain the name, or that has no href, is left unchanged.
C10_OnlyHrefsContainingFolderRewritten ==
    \A n \in 1..Len(created) :
        created[n].folder.err = "none" =>
            /\ Len(created[n].soup) = Len(source)
            /\ \A i \in 1..Len(source) :
                  created[n].soup[i] # source[i] =>
                      source[i] # NoHref /\ Contains(created[n].folder.val, source[i])

\* a document with the sentinel anchor and an unrelated link: the first is
\* rewritten, the second is not
C10_Witness ==
    \E n \in 1..Len(created) :
        /\ created[n].folder = [val |-> <<"g">>, err |-> "none"]
        /\ created[n].err = "none"
        /\ Len(source) = 2
        /\ source[1] = <<"g", "/", "pos_snapshot", ".", "html">>
        /\ created[n].soup[1] # source[1]
        /\ source[2] = <<"/", "tmp", "/", "data", "/", "test", ".", "html">>
        /\ created[n].soup[2] = source[2]

\* the create executions of a modifier that resolves its matcher with
\* LinkModifier.get_matcher
LinkMatcherRuns ==
    IF modifier.cls \in {"LinkModifier", "ReportPathModifier"} THEN 1..Len(created) ELSE {}

\* C11: LinkModifier.get_matcher gives, for link_matcher None, a predicate that
\* accepts every href (an absent one too); for a string, the predicate "the
\* string is a substring of the href"; for a callable, that callable; for any
\* other value it raises ValueError, no predicate is returned and nothing is
\* rewritten or written.
C11_MatcherResolution ==
    \A n \in LinkMatcherRuns :
        LET lm == modifier.link_matcher
            g  == created[n].matcher
        IN CASE lm.type = "None" ->
                  /\ g # NoMatcher
                  /\ \A h \in Hrefs : link_matched(g, h) = "True"
             [] lm.type = "str" ->
                  /\ g # NoMatcher
                  /\ \A h \in Hrefs \ {NoHref} :
                        link_matched(g, h) = IF Contains(lm.val, h) THEN "True" ELSE "False"
             [] lm.type = "callable" ->
                  g = [kind |-> "callable", arg |-> lm.val]
             [] OTHER ->
                  /\ g = NoMatcher
                  /\ created[n].err = "ValueError"
                  /\ created[n].soup = source
                  /\ outfile = NoFile

\* create with link_matcher=32 on a document with a link: ValueError, nothing written
C11_Witness ==
    /\ modifier.cls = "LinkModifier"
    /\ modifier.link_matcher.type = "int"
    /\ Len(source) = 2
    /\ source[1] # NoHref
    /\ Len(created) = 2
    /\ created[2].err = "ValueError"
    /\ created[2].matcher = NoMatcher

\* C12: the converter is invoked only when the write step has completed: the
\* convert job is declared with the write job as a dependency, and at every
\* invocation of the converter the notebook file has been written.
C12_ConvertAfterWrite ==
    /\ "convert" \in DOMAIN job_graph =>
          /\ "write" \in DOMAIN job_graph
          /\ "write" \in job_graph["convert"].upstream
    /\ \A n \in 1..Len(converted) :
          /\ converted[n].input # NoFile
          /\ converted[n].nruns >= 1

\* convert() on a populated assembler, the write job ran, then the converter
C12_Witness ==
    /\ Len(items) >= 1
    /\ calls = <<"convert">>
    /\ job_graph["write"].state = "done"
    /\ Len(converted) = 1
    /\ converted[1].input = file

\* C13: once the write step has run, the dependencies declared for the write job
\* hold the content invariant of the fingerprints of the cells the step serialized.
C13_WriteJobDependsOnInvariant ==
    ("write" \in DOMAIN job_graph /\ job_graph["write"].state = "done") =>
        \E k \in 1..Len(job_graph["write"].deps) :
            job_graph["write"].deps[k] = Handle("ParameterInvariant", runs[Len(runs)].invariants)

\* C14: constructing a Cell with a kind other than markdown and code raises
\* ValueError and yields no Cell; with markdown or code it succeeds and the cell
\* has the kind, the text and the tags it was given.
C14_CellKindValidated ==
    ret # NotApplied =>
        IF arg.celltype \in {"markdown", "code"}
        THEN /\ ret.err = "none"
             /\ ret.cell.type = arg.celltype
             /\ ret.cell.text = arg.text
             /\ ret.cell.tl = arg.tl
        ELSE /\ ret.err = "ValueError"
             /\ ret.cell = NoCell

\* Cell("t", "raw", ["a"]) raised
C14_Witness ==
    /\ arg.celltype = "raw"
    /\ arg.text = <<"t">>
    /\ lists[arg.tl] = << <<"a">> >>
    /\ ret.err = "ValueError"

\* the Cell objects the assemblies have produced: <<run, position>>
ProducedCells ==
    UNION { {<<r, i>> : i \in 1..Len(runs[r].cells)} : r \in 1..Len(runs) }

\* C15: every Cell an assembly has produced still has the tags it was constructed
\* with: its stored fingerprint is the fingerprint of its current text, kind and tags.
C15_CellImmutable ==
    \A x \in ProducedCells :
        LET c == runs[x[1]].cells[x[2]]
        IN c.hash = c.text \o <<c.type>> \o Join(lists[c.tl])

\* C16: no item with an unset section name is ever registered in an assembler.
C16_NoItemWithoutSection ==
    \A i \in 1..Len(items) : items[i].section # NoSection

\* C17: the assembly leaves the tag list the caller has built as the caller built it.
C17_CallerTagsUnchanged ==
    (\E i \in 1..Len(items) : items[i].tl = CallerList) => lists[CallerList] = CallerTags

\* the items a run has assembled, in the order of the nested loop
RunOrder(r) ==
    SelectSeq(ItemOrder(section_order, sections), LAMBDA id : id <= runs[r].nitems)

RECURSIVE CellsBefore(_, _)
\* the number of cells before those of the item at position k of order
CellsBefore(order, k) ==
    IF k = 1 THEN 3 ELSE CellsBefore(order, k - 1) + NCells(items[order[k - 1]])

\* the kind and the text of cell j of an item
ItemCellType(it, j) ==
    IF it.kind = "html" THEN (IF j = 1 THEN "markdown" ELSE "code")
    ELSE IF it.kind = "code" THEN "code" ELSE "markdown"

ItemCellText(it, j) ==
    IF it.kind = "html" /\ j = 2 THEN <<"HTML(filename=", "rel_filename", ")">> ELSE it.text

Palette == {colors[i] : i \in DOMAIN colors}

\* C18: a written cell sequence is the three preamble cells, untagged, then for
\* each section in section_order and each item in the section's registration
\* order the item's cells in their order; a cell of an item with color enabled
\* has the colour tag of the section, a cell of an item with color disabled has
\* no colour tag.
C18_AssembledSequence ==
    \A r \in 1..Len(runs) :
        runs[r].err = "none" =>
            LET order == RunOrder(r)
                cells == runs[r].nb
            IN /\ Len(cells) = CellsBefore(order, Len(order) + 1)
               /\ \A i \in 1..3 :
                     /\ cells[i].source = init_first_cell(lists)[i].text
                     /\ cells[i].cell_type = init_first_cell(lists)[i].type
                     /\ cells[i].tags = <<>>
               /\ \A k \in 1..Len(order) :
                     LET it == items[order[k]]
                     IN \A j \in 1..NCells(it) :
                            LET c == cells[CellsBefore(order, k) + j]
                            IN /\ c.cell_type = ItemCellType(it, j)
                               /\ c.source = ItemCellText(it, j)
                               /\ IF it.color
                                  THEN \E t \in 1..Len(c.tags) :
                                          c.tags[t] = get_color_tag(section_order, it.section)
                                  ELSE \A t \in 1..Len(c.tags) : c.tags[t] \notin Palette

RECURSIVE LeafProducers(_)
\* the producers at the leaves of a value, left to right
LeafProducers(x) ==
    IF ~x.iter THEN <<x>>
    ELSE IF x.elems = <<>> THEN <<>>
    ELSE LeafProducers(Head(x.elems)) \o LeafProducers(Collection(Tail(x.elems)))

\* C19: flatten returns the leaf producers of its argument, left to right, and no
\* collection is an element of the result.
C19_FlattenAllLevels ==
    ret # NotApplied =>
        /\ ret.val = LeafProducers(arg.list_of_lists)
        /\ \A i \in 1..Len(ret.val) : ~ret.val[i].iter

\* C20: after every execution of the write step the cell list of the notebook is
\* the assembly of that execution, one notebook cell per assembled cell in the
\* same order and of the same kind and text; cells of an earlier write are not kept.
C20_NotebookIsCurrentAssembly ==
    /\ runs # <<>> =>
          /\ nb = runs[Len(runs)].nb
          /\ runs[Len(runs)].err = "none" => file = nb
    /\ \A r \in 1..Len(runs) :
          runs[r].err = "none" =>
              /\ Len(runs[r].nb) = Len(runs[r].cells)
              /\ Len(runs[r].nb) = CellsBefore(RunOrder(r), Len(RunOrder(r)) + 1)
              /\ \A i \in 1..Len(runs[r].nb) :
                    /\ runs[r].nb[i].cell_type = runs[r].cells[i].type
                    /\ runs[r].nb[i].source = runs[r].cells[i].text

\* two writes of a populated assembler, an item registered in between
C20_Witness ==
    /\ Len(runs) = 2
    /\ runs[1].err = "none"
    /\ runs[2].err = "none"
    /\ runs[1].nitems = 1
    /\ runs[2].nitems = 2
    /\ Len(nb) > Len(runs[1].nb)

\* C21: a register_item call that raises ValueError for the item's dependencies
\* leaves sections, section_order and the dependency list as they were before
\* the call.
C21_RegisterAtomicOnFailure ==
    [][(Len(items') = Len(items) + 1 /\ err' = "ValueError") =>
           /\ sections' = sections
           /\ section_order' = section_order
           /\ dependencies' = dependencies]_vars

====
